---------------------------- MODULE Spec2Model ----------------------------
(***************************************************************************)
(* A model of outline_extractor.py: title detection, body font size        *)
(* estimation, heading classification with ordered deduplication, and the  *)
(* OCR fallback of extract_outline.                                        *)
(*                                                                         *)
(* Representation.                                                         *)
(*   - A Python str is a sequence of one-character strings.                *)
(*   - None (as a text) is NoneText, a value no str equals.                *)
(*   - A font size is an integer: the raw sp["size"] in hundredths of a    *)
(*     point, round(size, 1) in tenths of a point.                         *)
(*   - A page is the sequence of the spans of its text blocks (type 0), in *)
(*     layout order; a span is [text, size, flags, x0, y0] with x0, y0 the *)
(*     first two coordinates of its bbox.                                  *)
(*   - A level is "H1", "H2", "H3" or "None".                              *)
(***************************************************************************)
EXTENDS Integers, Sequences, FiniteSets, TLC

VARIABLES
    doc,         \* the opened document: a sequence of pages
    meta,        \* doc.metadata["title"]
    title,       \* extract_outline: title
    body_size,   \* extract_outline: body_size (tenths)
    thr,         \* detect_headings: thr
    pno,         \* 1-based page number of the running loop
    si,          \* 1-based index of the span of the running loop
    span,        \* detect_headings: span (the argument of assign_level)
    lvl,         \* detect_headings: lvl (the result of assign_level)
    outline,     \* detect_headings: outline
    seen_texts,  \* detect_headings: seen_texts
    last_text,   \* detect_headings: last_text
    headings,    \* extract_outline: headings
    pc,          \* position in the program
    err          \* the exception that left extract_outline, or "none"

vars == <<doc, meta, title, body_size, thr, pno, si, span, lvl, outline,
          seen_texts, last_text, headings, pc, err>>

-----------------------------------------------------------------------------
(* Bounds of the model.                                                    *)

MaxPages == 2

\* most spans in a document, all pages together
MaxSpans == 3

-----------------------------------------------------------------------------
(* Characters and the str methods the program uses.                        *)

NoneText == <<"None">>

Whitespace == {" ", "\t", "\n"}

Digits == {"0", "1", "2", "3", "4", "5", "6", "7", "8", "9"}

UpperCase ==
    <<"A","B","C","D","E","F","G","H","I","J","K","L","M",
      "N","O","P","Q","R","S","T","U","V","W","X","Y","Z">>

LowerCase ==
    <<"a","b","c","d","e","f","g","h","i","j","k","l","m",
      "n","o","p","q","r","s","t","u","v","w","x","y","z">>

LowerChar(c) ==
    IF \E i \in 1..Len(UpperCase) : UpperCase[i] = c
    THEN LowerCase[CHOOSE i \in 1..Len(UpperCase) : UpperCase[i] = c]
    ELSE c

\* str.lower()
Lower(s) == [i \in 1..Len(s) |-> LowerChar(s[i])]

RECURSIVE LStrip(_)
LStrip(s) ==
    IF s # <<>> /\ Head(s) \in Whitespace THEN LStrip(Tail(s)) ELSE s

RECURSIVE RStrip(_)
RStrip(s) ==
    IF s # <<>> /\ s[Len(s)] \in Whitespace
    THEN RStrip(SubSeq(s, 1, Len(s) - 1))
    ELSE s

\* str.strip()
Strip(s) == RStrip(LStrip(s))

\* re.sub(r"\s+", " ", s): every maximal run of whitespace becomes one space
RECURSIVE SubWhitespace(_)
SubWhitespace(s) ==
    IF s = <<>> THEN <<>>
    ELSE IF Head(s) \in Whitespace
         THEN <<" ">> \o SubWhitespace(LStrip(s))
         ELSE <<Head(s)>> \o SubWhitespace(Tail(s))

\* str.startswith(prefix)
StartsWith(s, prefix) ==
    /\ Len(prefix) <= Len(s)
    /\ SubSeq(s, 1, Len(prefix)) = prefix

\* len(s.split()): the number of maximal runs of non-whitespace
RECURSIVE SplitCount(_)
SplitCount(s) ==
    IF s = <<>> THEN 0
    ELSE IF Head(s) \in Whitespace THEN SplitCount(Tail(s))
    ELSE IF Len(s) = 1 \/ s[2] \in Whitespace THEN 1 + SplitCount(Tail(s))
    ELSE SplitCount(Tail(s))

\* s.split("\n")[0]
RECURSIVE FirstLine(_)
FirstLine(s) ==
    IF s = <<>> \/ Head(s) = "\n" THEN <<>>
    ELSE <<Head(s)>> \o FirstLine(Tail(s))

\* round(x, 1) of a size given in hundredths, in tenths (no sampled size ends in 5)
Round1(h) == (h + 5) \div 10

-----------------------------------------------------------------------------
(* BLACKLIST and is_boilerplate.                                           *)

BlTableOfContents ==
    <<"t","a","b","l","e"," ","o","f"," ","c","o","n","t","e","n","t","s">>
BlAcknowledgements ==
    <<"a","c","k","n","o","w","l","e","d","g","e","m","e","n","t","s">>
BlRevisionHistory ==
    <<"r","e","v","i","s","i","o","n"," ","h","i","s","t","o","r","y">>
BlCopyrightNotice ==
    <<"c","o","p","y","r","i","g","h","t"," ","n","o","t","i","c","e">>
BlVersion ==
    <<"v","e","r","s","i","o","n"," ","1",".","0">>
BlCopyrightIstqb ==
    <<"c","o","p","y","r","i","g","h","t"," ","©"," ","i","n","t","e","r","n","a","t",
      "i","o","n","a","l"," ","s","o","f","t","w","a","r","e"," ","t","e","s","t","i",
      "n","g"," ","q","u","a","l","i","f","i","c","a","t","i","o","n","s"," ","b","o",
      "a","r","d">>

BLACKLIST ==
    {BlTableOfContents, BlAcknowledgements, BlRevisionHistory,
     BlCopyrightNotice, BlVersion, BlCopyrightIstqb}

\* is_boilerplate without the re.sub: a run of whitespace is not collapsed
is_boilerplate_no_sub(text) ==
    LET txt == Lower(Strip(text))
    IN  \E bl \in BLACKLIST : StartsWith(txt, bl)

is_boilerplate(text) ==
    LET txt == SubWhitespace(Lower(Strip(text)))
    IN  \E bl \in BLACKLIST : StartsWith(txt, bl)

-----------------------------------------------------------------------------
(* Spans and pages.                                                        *)

Span(text, size, flags, x0, y0) ==
    [text |-> text, size |-> size, flags |-> flags, x0 |-> x0, y0 |-> y0]

\* the spans of all pages, in reading order
RECURSIVE AllSpans(_)
AllSpans(d) == IF d = <<>> THEN <<>> ELSE Head(d) \o AllSpans(Tail(d))

\* [round(sp["size"], 1) for ... sp in line["spans"]]
RoundedSizes(spans) == [i \in 1..Len(spans) |-> Round1(spans[i].size)]

\* max(sizes) of a non-empty list
MaxOf(sizes) ==
    CHOOSE m \in {sizes[i] : i \in 1..Len(sizes)} :
        \A i \in 1..Len(sizes) : sizes[i] <= m

\* page.get_text(): the plain text of the page, its spans' texts in order
RECURSIVE PageText(_)
PageText(page) ==
    IF page = <<>> THEN <<>> ELSE Head(page).text \o PageText(Tail(page))


-----------------------------------------------------------------------------
(* detect_title and detect_title_by_font.                                  *)

MinTitleLen == 5

MinTitleWords == 3

\* the list `spans` of detect_title_by_font: (rounded size, stripped text, y)
RECURSIVE TitleSpans(_)
TitleSpans(page) ==
    IF page = <<>> THEN <<>>
    ELSE LET sp == Head(page)
         IN  (IF SplitCount(sp.text) >= MinTitleWords
              THEN << <<Round1(sp.size), Strip(sp.text), sp.y0>> >>
              ELSE <<>>) \o TitleSpans(Tail(page))

\* detect_title_by_font on a document with a first page: the largest size, then the
\* topmost, then (sorted is stable) the first in layout order
detect_title_by_font(d) ==
    LET spans == TitleSpans(d[1])
        idx == 1..Len(spans)
    IN  IF spans = <<>> THEN <<>>
        ELSE LET max_size == MaxOf([i \in idx |-> spans[i][1]])
                 cands == {i \in idx : spans[i][1] = max_size}
                 best == CHOOSE i \in cands :
                            \A j \in cands :
                                \/ spans[i][3] < spans[j][3]
                                \/ spans[i][3] = spans[j][3] /\ i <= j
             IN  spans[best][2]

\* the test of detect_title: `meta and len(meta.strip()) > 5 and not is_boilerplate(meta)`
MetaTitleUsable(m) ==
    /\ m # <<>>
    /\ Len(Strip(m)) > MinTitleLen
    /\ ~is_boilerplate(m)

-----------------------------------------------------------------------------
(* compute_body_font_size and thresholds.                                  *)

\* the value returned for a document without spans
EmptyBodySize == 0

\* body_size + 4.0 and body_size + 2.0, in tenths
DeltaH1 == 40

DeltaH2 == 20

CountOf(sizes, v) == Cardinality({i \in 1..Len(sizes) : sizes[i] = v})

\* Counter(sizes).most_common(1)[0][0]: a Counter keeps its keys in the order of their
\* first insertion and most_common(1) is max() over the items by count, which returns
\* the first of the items with the highest count
MostCommon(sizes) ==
    LET idx == 1..Len(sizes)
        first == CHOOSE i \in idx :
                    /\ \A j \in idx : CountOf(sizes, sizes[j]) <= CountOf(sizes, sizes[i])
                    /\ \A j \in 1..(i - 1) :
                          CountOf(sizes, sizes[j]) < CountOf(sizes, sizes[i])
    IN  sizes[first]

compute_body_font_size(d) ==
    LET sizes == RoundedSizes(AllSpans(d))
    IN  IF sizes = <<>> THEN EmptyBodySize ELSE MostCommon(sizes)

thresholds(body) == [H1 |-> body + DeltaH1, H2 |-> body + DeltaH2]

-----------------------------------------------------------------------------
(* assign_level.                                                           *)

MinTextLen == 4

IndentColumn == 100

\* \d+ from position i: the position after the run of digits starting at i
RECURSIVE DigitsEnd(_, _)
DigitsEnd(t, i) ==
    IF i <= Len(t) /\ t[i] \in Digits THEN DigitsEnd(t, i + 1) ELSE i

\* (\.\d+)* from position i, greedy: the position after the last group
RECURSIVE GroupsEnd(_, _)
GroupsEnd(t, i) ==
    IF i + 1 <= Len(t) /\ t[i] = "." /\ t[i + 1] \in Digits
    THEN GroupsEnd(t, DigitsEnd(t, i + 1))
    ELSE i

\* re.match(r"^(\d+(\.\d+)+)\s+", text): m.group(1), or NoneText when there is no
\* match. The greedy match is the only candidate: giving back a digit or a group leaves
\* a digit or a dot, never whitespace, as the next character.
NumberingMatch(t) ==
    LET a == DigitsEnd(t, 1)
        b == GroupsEnd(t, a)
    IN  IF a > 1 /\ b > a /\ b <= Len(t) /\ t[b] \in Whitespace
        THEN SubSeq(t, 1, b - 1)
        ELSE NoneText

\* str.count(".")
CountDots(s) == Cardinality({i \in 1..Len(s) : s[i] = "."})

\* {0:"H1",1:"H2",2:"H3"}.get(depth, "H3")
DepthLevel(depth) ==
    CASE depth = 0 -> "H1"
      [] depth = 1 -> "H2"
      [] depth = 2 -> "H3"
      [] OTHER -> "H3"

\* assign_level with the bold rules tried before the size rules
assign_level_bold_first(sp, t) ==
    IF is_boilerplate(sp.text) \/ Len(sp.text) < MinTextLen THEN "None"
    ELSE IF sp.bold /\ sp.indent < IndentColumn THEN "H2"
    ELSE IF sp.bold THEN "H3"
    ELSE IF sp.size >= t.H1 THEN "H1"
    ELSE IF sp.size >= t.H2 THEN "H2"
    ELSE IF NumberingMatch(sp.text) # NoneText
         THEN DepthLevel(CountDots(NumberingMatch(sp.text)))
    ELSE "None"

\* sp is the dict `span`: [text, size, bold, indent]; t is `thr`
assign_level(sp, t) ==
    IF is_boilerplate(sp.text) \/ Len(sp.text) < MinTextLen THEN "None"
    ELSE IF sp.size >= t.H1 THEN "H1"
    ELSE IF sp.size >= t.H2 THEN "H2"
    ELSE IF NumberingMatch(sp.text) # NoneText
         THEN DepthLevel(CountDots(NumberingMatch(sp.text)))
    ELSE IF sp.bold /\ sp.indent < IndentColumn THEN "H2"
    ELSE IF sp.bold THEN "H3"
    ELSE "None"

\* bool(sp.get("flags", 0) & 2)
FlagBold(flags) == (flags \div 2) % 2 = 1

\* the dict `span` detect_headings builds from a raw span
HeadingSpan(sp) ==
    [text |-> Strip(sp.text), size |-> Round1(sp.size),
     bold |-> FlagBold(sp.flags), indent |-> sp.x0]

\* the test that skips a page in detect_headings: `not sizes or max(sizes) < thr["H2"]`
PageSkipped(page, t) ==
    LET sizes == RoundedSizes(page)
    IN  IF sizes = <<>> THEN TRUE ELSE MaxOf(sizes) < t.H2

\* the key of the duplicate filter: (lvl, text.lower())
DedupKey(level, text) == <<level, Lower(text)>>

Heading(level, text, page) == [level |-> level, text |-> text, page |-> page]

-----------------------------------------------------------------------------
(* The sampled inputs: texts, spans, documents, metadata titles and what   *)
(* the OCR returns.                                                        *)

TxBody ==
    <<"p","l","a","i","n"," ","b","o","d","y"," ","t","e","x","t">>
TxScope ==
    <<"S","c","o","p","e"," ">>
TxScopeColon ==
    <<"S","c","o","p","e",":">>
TxNum ==
    <<"1",".","1"," ","S","c","o","p","e">>
TxToc ==
    <<"T","a","b","l","e"," "," ","o","f"," ","C","o","n","t","e","n","t","s">>
TxNote ==
    <<"N","o","t","e">>

\* the spans a page is made of: body prose at 11.0, two headings at 16.0 and 17.0
\* whose texts differ in punctuation only, a numbered heading at 12.5, a
\* table-of-contents line at 24.0 and a flagged short line at 11.0
SpanPool ==
    { Span(TxBody, 1100, 0, 72, 300),
      Span(TxScope, 1602, 0, 72, 100),
      Span(TxScopeColon, 1698, 0, 72, 200),
      Span(TxNum, 1248, 0, 40, 250),
      Span(TxToc, 2400, 0, 72, 50),
      Span(TxNote, 1100, 2, 40, 400) }

\* the documents of n pages holding at most b spans together
RECURSIVE DocsOf(_, _)
DocsOf(n, b) ==
    IF n = 0 THEN {<<>>}
    ELSE UNION { { <<pg>> \o rest : pg \in [1..k -> SpanPool],
                                    rest \in DocsOf(n - 1, b - k) } : k \in 0..b }

Docs == UNION { DocsOf(n, MaxSpans) : n \in 0..MaxPages }

MetaDesign ==
    <<"D","e","s","i","g","n"," ","D","o","c"," ">>

\* doc.metadata["title"]: none, or one detect_title returns
MetaTitles == {<<>>, MetaDesign}

OcrAppendix ==
    <<" ","A","p","p","e","n","d","i","x"," ","A"," ","\n","G","l","o","s","s","a","r",
      "y">>
OcrToc ==
    <<"T","A","B","L","E"," ","O","F","\t","C","O","N","T","E","N","T","S","\n","I","n",
      "t","r","o">>
OcrBlank ==
    <<" ","\n">>

\* what rasterizing a page and pytesseract.image_to_string do: return a text, or raise
OcrOutcomes ==
    { [ok |-> TRUE, text |-> t] : t \in {OcrAppendix, OcrToc, OcrBlank} }
        \cup { [ok |-> FALSE, text |-> <<>>] }

LtToc ==
    <<"T","a","b","l","e"," ","o","f"," ","C","o","n","t","e","n","t","s">>
LtShort ==
    <<"A","b","c">>
LtOverview ==
    <<"O","v","e","r","v","i","e","w">>
LtOneIntro ==
    <<"1"," ","I","n","t","r","o","d","u","c","t","i","o","n">>
LtTwoSeg ==
    <<"1",".","1"," ","S","c","o","p","e">>
LtThreeSeg ==
    <<"1",".","1",".","1"," ","D","e","t","a","i","l","s">>
LtFourSeg ==
    <<"1",".","1",".","1",".","1"," ","E","d","g","e">>
LtNoSpace ==
    <<"1",".","1","S","c","o","p","e">>
LtDotSpace ==
    <<"1","."," ","S","c","o","p","e">>
LtTabbed ==
    <<"2",".","1","0","\t","P","l","a","n">>
LtLeadDot ==
    <<".","1"," ","S","c","o","p","e">>
LtCopy ==
    <<"C","o","p","y","r","i","g","h","t"," ","N","o","t","i","c","e"," ","2","0","2",
      "4">>

LevelTexts ==
    {LtToc, LtShort, LtOverview, LtOneIntro, LtTwoSeg, LtThreeSeg, LtFourSeg,
     LtNoSpace, LtDotSpace, LtTabbed, LtLeadDot, LtCopy}

\* the arguments assign_level is sampled on: sizes around both thresholds of a body of
\* 11.0 and of 12.0, indents on both sides of the column
LevelSpans ==
    [text : LevelTexts, size : {110, 129, 130, 140, 149, 150, 160},
     bold : BOOLEAN, indent : {40, 99, 100}]

LevelBodies == {110, 120}

-----------------------------------------------------------------------------
(* extract_outline, step by step.                                          *)

NoSpan == [text |-> NoneText, size |-> 0, bold |-> FALSE, indent |-> 0]

\* the locals before their first assignment
Unset ==
    /\ title = NoneText
    /\ body_size = 0
    /\ pno = 0
    /\ si = 0
    /\ lvl = "None"
    /\ outline = <<>>
    /\ seen_texts = {}
    /\ last_text = NoneText
    /\ headings = <<>>
    /\ err = "none"

\* fitz.open(pdf_path) has returned the document
Init ==
    /\ doc \in Docs
    /\ meta \in MetaTitles
    /\ thr = thresholds(0)
    /\ span = NoSpan
    /\ Unset
    /\ pc = "title"

\* title = detect_title(doc); doc[0] raises when the document has no page
DetectTitle ==
    /\ pc = "title"
    /\ IF MetaTitleUsable(meta)
       THEN /\ title' = Strip(meta)
            /\ pc' = "body"
            /\ err' = err
       ELSE IF Len(doc) = 0
       THEN /\ pc' = "raised"
            /\ err' = "IndexError"
            /\ title' = title
       ELSE /\ title' = detect_title_by_font(doc)
            /\ pc' = "body"
            /\ err' = err
    /\ UNCHANGED <<doc, meta, body_size, thr, pno, si, span, lvl, outline,
                   seen_texts, last_text, headings>>

\* body_size = compute_body_font_size(doc)
ComputeBody ==
    /\ pc = "body"
    /\ body_size' = compute_body_font_size(doc)
    /\ pc' = "detect"
    /\ UNCHANGED <<doc, meta, title, thr, pno, si, span, lvl, outline,
                   seen_texts, last_text, headings, err>>

\* detect_headings(doc, body_size) is entered: lines 88-91
BeginDetect ==
    /\ pc = "detect"
    /\ thr' = thresholds(body_size)
    /\ outline' = <<>>
    /\ seen_texts' = {}
    /\ last_text' = NoneText
    /\ pno' = 1
    /\ pc' = "page"
    /\ UNCHANGED <<doc, meta, title, body_size, si, span, lvl, headings, err>>

\* a page with no sizes, or with no size at the H2 threshold, is skipped
SkipPage ==
    /\ pc = "page"
    /\ pno <= Len(doc)
    /\ PageSkipped(doc[pno], thr)
    /\ pno' = pno + 1
    /\ UNCHANGED <<doc, meta, title, body_size, thr, si, span, lvl, outline,
                   seen_texts, last_text, headings, pc, err>>

\* any other page is gone through span by span
EnterPage ==
    /\ pc = "page"
    /\ pno <= Len(doc)
    /\ ~PageSkipped(doc[pno], thr)
    /\ si' = 1
    /\ pc' = "span"
    /\ UNCHANGED <<doc, meta, title, body_size, thr, pno, span, lvl, outline,
                   seen_texts, last_text, headings, err>>

\* one turn of the innermost loop of detect_headings, lines 107-123; after the last
\* span of the page the loop over the pages goes on
SpanStep ==
    /\ pc = "span"
    /\ LET s == HeadingSpan(doc[pno][si])
           l == assign_level(s, thr)
           key == DedupKey(l, s.text)
           emit == /\ l # "None"
                   /\ ~(s.text = last_text \/ key \in seen_texts)
       IN  /\ span' = s
           /\ lvl' = l
           /\ outline' = IF emit THEN Append(outline, Heading(l, s.text, pno))
                         ELSE outline
           /\ seen_texts' = IF emit THEN seen_texts \cup {key} ELSE seen_texts
           /\ last_text' = IF emit THEN s.text ELSE last_text
    /\ IF si < Len(doc[pno])
       THEN si' = si + 1 /\ pno' = pno /\ pc' = pc
       ELSE si' = 0 /\ pno' = pno + 1 /\ pc' = "page"
    /\ UNCHANGED <<doc, meta, title, body_size, thr, headings, err>>

\* detect_headings returns: headings = outline
EndDetect ==
    /\ pc = "page"
    /\ pno > Len(doc)
    /\ headings' = outline
    /\ pc' = "fallback"
    /\ UNCHANGED <<doc, meta, title, body_size, thr, pno, si, span, lvl, outline,
                   seen_texts, last_text, err>>

\* `if not headings`
FallbackEnabled(h) == h = <<>>

\* `not text` for text = doc[pno-1].get_text().strip(), tested on every page
TextLayerEmptyAlways(page) == TRUE

\* `not text` for text = doc[pno-1].get_text().strip()
TextLayerEmpty(page) == Strip(PageText(page)) = <<>>

\* with headings found the fallback is passed over and the outline returned
NoFallback ==
    /\ pc = "fallback"
    /\ ~FallbackEnabled(headings)
    /\ pc' = "done"
    /\ UNCHANGED <<doc, meta, title, body_size, thr, pno, si, span, lvl, outline,
                   seen_texts, last_text, headings, err>>

BeginFallback ==
    /\ pc = "fallback"
    /\ FallbackEnabled(headings)
    /\ pno' = 1
    /\ pc' = "ocr"
    /\ UNCHANGED <<doc, meta, title, body_size, thr, si, span, lvl, outline,
                   seen_texts, last_text, headings, err>>

\* a page with a text layer is passed over
OcrSkipPage ==
    /\ pc = "ocr"
    /\ pno <= Len(doc)
    /\ ~TextLayerEmpty(doc[pno])
    /\ pno' = pno + 1
    /\ UNCHANGED <<doc, meta, title, body_size, thr, si, span, lvl, outline,
                   seen_texts, last_text, headings, pc, err>>

\* a page without a text layer is rasterized and read, lines 139-144
OcrPage ==
    /\ pc = "ocr"
    /\ pno <= Len(doc)
    /\ TextLayerEmpty(doc[pno])
    /\ \E out \in OcrOutcomes :
         /\ out.ok
         /\ LET snippet == FirstLine(Strip(out.text))
            IN  headings' = IF snippet # <<>> /\ ~is_boilerplate(snippet)
                            THEN Append(headings, Heading("H1", snippet, pno))
                            ELSE headings
    /\ pno' = pno + 1
    /\ UNCHANGED <<doc, meta, title, body_size, thr, si, span, lvl, outline,
                   seen_texts, last_text, pc, err>>

\* get_pixmap, Image.frombytes or image_to_string raises: nothing catches it
OcrRaises ==
    /\ pc = "ocr"
    /\ pno <= Len(doc)
    /\ TextLayerEmpty(doc[pno])
    /\ \E out \in OcrOutcomes : ~out.ok
    /\ pc' = "raised"
    /\ err' = "OCRError"
    /\ UNCHANGED <<doc, meta, title, body_size, thr, pno, si, span, lvl, outline,
                   seen_texts, last_text, headings>>

\* the loop over the pages ends: doc.close() and the return
EndFallback ==
    /\ pc = "ocr"
    /\ pno > Len(doc)
    /\ pc' = "done"
    /\ UNCHANGED <<doc, meta, title, body_size, thr, pno, si, span, lvl, outline,
                   seen_texts, last_text, headings, err>>

Next ==
    \/ DetectTitle
    \/ ComputeBody
    \/ BeginDetect
    \/ SkipPage
    \/ EnterPage
    \/ SpanStep
    \/ EndDetect
    \/ NoFallback
    \/ BeginFallback
    \/ OcrSkipPage
    \/ OcrPage
    \/ OcrRaises
    \/ EndFallback

Spec == Init /\ [][Next]_vars

\* the value extract_outline returns
Result == [title |-> title, outline |-> headings]

-----------------------------------------------------------------------------
(* assign_level alone, on sampled spans and thresholds.                    *)

InitLevel ==
    /\ doc = <<>>
    /\ meta = <<>>
    /\ span \in LevelSpans
    /\ thr \in {thresholds(b) : b \in LevelBodies}
    /\ Unset
    /\ pc = "assign"

AssignOnly ==
    /\ pc = "assign"
    /\ lvl' = assign_level(span, thr)
    /\ pc' = "assigned"
    /\ UNCHANGED <<doc, meta, title, body_size, thr, pno, si, span, outline,
                   seen_texts, last_text, headings, err>>

NextLevel == AssignOnly

SpecLevel == InitLevel /\ [][NextLevel]_vars

-----------------------------------------------------------------------------
(* Notions of the specification the properties below are stated with.      *)

\* headingCap of the configuration; the program has no such value
HeadingCap == 2

\* the first pass has returned: `headings` holds what detect_headings gave or more
FirstPassDone == pc \in {"fallback", "ocr", "done"} \/ err = "OCRError"

IsWordChar(c) ==
    \/ c \in Digits
    \/ c = "_"
    \/ \E i \in 1..Len(LowerCase) : LowerCase[i] = c \/ UpperCase[i] = c

\* the normalization of the deduplicator: non-word characters stripped, lowercased
Normalize(t) == Lower(SelectSeq(t, IsWordChar))

NormalizedKeys(hs) ==
    { <<hs[i].level, Normalize(hs[i].text)>> : i \in 1..Len(hs) }

\* collapse whitespace, lowercase, trim
BoilerplateForm(t) == Strip(Lower(SubWhitespace(t)))

StartsWithBlacklisted(t) ==
    LET form == BoilerplateForm(t)
    IN  \E bl \in BLACKLIST :
            /\ Len(bl) <= Len(form)
            /\ \A i \in 1..Len(bl) : form[i] = bl[i]

\* every character of every span of the page is whitespace
NoTextOnPage(page) ==
    \A k \in 1..Len(page) :
        \A i \in 1..Len(page[k].text) : page[k].text[i] \in Whitespace

\* p is a dotted numeral: digits in segments, one dot between two segments
IsNumeral(p) ==
    /\ Len(p) >= 1
    /\ p[1] \in Digits
    /\ p[Len(p)] \in Digits
    /\ \A i \in 1..Len(p) : p[i] \in Digits \cup {"."}
    /\ \A i \in 1..(Len(p) - 1) : ~(p[i] = "." /\ p[i + 1] = ".")

\* the numbers of dots of the dotted numerals that start t and end before whitespace
LeadingNumeralDots(t) ==
    { CountDots(SubSeq(t, 1, k)) : k \in { j \in 1..(Len(t) - 1) :
          IsNumeral(SubSeq(t, 1, j)) /\ t[j + 1] \in Whitespace } }

\* the classified spans of all pages, none skipped, folded through the deduplicator
RECURSIVE FoldNoSkip(_, _, _, _, _, _, _)
FoldNoSkip(d, p, k, t, out, seen, last) ==
    IF p > Len(d) THEN out
    ELSE IF k > Len(d[p]) THEN FoldNoSkip(d, p + 1, 1, t, out, seen, last)
    ELSE LET s == HeadingSpan(d[p][k])
             l == assign_level(s, t)
             key == DedupKey(l, s.text)
         IN  IF l = "None" \/ s.text = last \/ key \in seen
             THEN FoldNoSkip(d, p, k + 1, t, out, seen, last)
             ELSE FoldNoSkip(d, p, k + 1, t, Append(out, Heading(l, s.text, p)),
                             seen \cup {key}, s.text)

OutlineWithoutSkip(d, t) == FoldNoSkip(d, 1, 1, t, <<>>, {}, NoneText)

SameSizes(d1, d2) ==
    LET s1 == RoundedSizes(AllSpans(d1))
        s2 == RoundedSizes(AllSpans(d2))
    IN  /\ Len(s1) = Len(s2)
        /\ \A i \in 1..Len(s1) : CountOf(s1, s1[i]) = CountOf(s2, s1[i])

-----------------------------------------------------------------------------
(* The properties.                                                         *)

\* C1: the list of headings extract_outline builds never holds more than headingCap
\* entries, whatever the document.
C1_HeadingsWithinCap ==
    /\ Len(outline) <= HeadingCap
    /\ Len(headings) <= HeadingCap

\* C2: a classified span is appended to the outline exactly when its text differs from
\* the text of the last heading emitted and its key (level, normalized text) is the key
\* of no heading emitted before.
C2_AppendedIffNewNormalizedKey ==
    [][ pc = "span" =>
          LET appended == outline' # outline
              fresh ==
                  /\ lvl' # "None"
                  /\ outline = <<>> \/ span'.text # outline[Len(outline)].text
                  /\ <<lvl', Normalize(span'.text)>> \notin NormalizedKeys(outline)
          IN  appended <=> fresh ]_vars

\* C3: the fallback loop runs only after a first pass without headings; what it adds
\* are H1 headings of pages without text, at most one a page, pages increasing; with
\* headings from the first pass the result is the first pass's outline.
C3_FallbackOnlyForTextlessPages ==
    /\ pc = "ocr" => outline = <<>>
    /\ FirstPassDone /\ outline # <<>> => headings = outline
    /\ FirstPassDone /\ outline = <<>> =>
          /\ \A i \in 1..Len(headings) :
                /\ headings[i].level = "H1"
                /\ headings[i].page \in 1..Len(doc)
                /\ NoTextOnPage(doc[headings[i].page])
          /\ \A i \in 1..Len(headings) : \A j \in 1..Len(headings) :
                i < j => headings[i].page < headings[j].page

\* a two-page document whose first page has text and no heading and whose second page
\* has none: the fallback has added the heading of page 2
C3_Witness ==
    /\ pc = "done"
    /\ outline = <<>>
    /\ Len(doc) = 2
    /\ ~NoTextOnPage(doc[1])
    /\ Len(headings) = 1
    /\ headings[1].page = 2

\* C4: the outline of the first pass is the outline the classification and the
\* deduplication give on every span of every page, no page skipped.
C4_SkipIsSafePruning ==
    FirstPassDone => outline = OutlineWithoutSkip(doc, thr)

\* C5: assign_level returns what the first matching rule gives, in the order reject,
\* size, numbering, bold/indent, and None when no rule matches.
C5_FirstMatchingRule ==
    pc = "assigned" =>
      LET t == span.text
          rejected == StartsWithBlacklisted(t) \/ Len(t) < 4
          dots == LeadingNumeralDots(t) \ {0}
      IN  /\ rejected => lvl = "None"
          /\ ~rejected /\ span.size >= thr.H1 => lvl = "H1"
          /\ ~rejected /\ span.size < thr.H1 /\ span.size >= thr.H2 => lvl = "H2"
          /\ ~rejected /\ span.size < thr.H2 /\ dots # {} =>
                /\ 1 \in dots => lvl = "H2"
                /\ (\E n \in dots : n >= 2) => lvl = "H3"
          /\ ~rejected /\ span.size < thr.H2 /\ dots = {} /\ span.bold =>
                /\ span.indent < 100 => lvl = "H2"
                /\ span.indent >= 100 => lvl = "H3"
          /\ ~rejected /\ span.size < thr.H2 /\ dots = {} /\ ~span.bold =>
                lvl = "None"

\* a bold, indented "1.1.1.1 Edge" below both thresholds: the numbering rule decides,
\* capped at H3, not the bold rule
C5_Witness ==
    /\ pc = "assigned"
    /\ span.text = LtFourSeg
    /\ span.bold
    /\ span.indent < 100
    /\ span.size < thr.H2
    /\ lvl = "H3"

\* C6: no heading of the first pass or of the fallback has a text whose
\* whitespace-collapsed, lowercased, trimmed form starts with a blacklist phrase.
C6_NoBoilerplateHeading ==
    /\ \A i \in 1..Len(outline) : ~StartsWithBlacklisted(outline[i].text)
    /\ \A i \in 1..Len(headings) : ~StartsWithBlacklisted(headings[i].text)

\* a table-of-contents line at the H1 threshold or above, on a page that was gone
\* through, and the outline returned
C6_Witness ==
    /\ pc = "done"
    /\ \E p \in 1..Len(doc) : \E k \in 1..Len(doc[p]) :
          /\ StartsWithBlacklisted(doc[p][k].text)
          /\ Round1(doc[p][k].size) >= thr.H1
          /\ ~PageSkipped(doc[p], thr)
    /\ headings # <<>>

\* C7: the body size does not depend on the order of the spans: a document with the
\* same rounded sizes, each as often, has the same body size.
C7_BodySizeOrderIndependent ==
    pc = "detect" =>
      \A d \in Docs : SameSizes(d, doc) => compute_body_font_size(d) = body_size

\* C8: a document without pages, or whose pages have no spans, with an empty metadata
\* title: extract_outline does not raise and returns the title "" and no headings.
C8_EmptyInputReturnsEmpty ==
    AllSpans(doc) = <<>> /\ meta = <<>> =>
      /\ pc # "raised"
      /\ pc = "done" => Result = [title |-> <<>>, outline |-> <<>>]

\* C9: the body size of a document without spans is the default 12.0, and the
\* thresholds are those of a body of 12.0.
C9_DefaultBodySize ==
    pc = "page" /\ AllSpans(doc) = <<>> =>
      /\ body_size = 120
      /\ thr = thresholds(120)

\* C10: a failure of the rasterization or of the OCR of a page never leaves
\* extract_outline: the pages after it are examined and the outline is returned.
C10_OcrFailureNeverAborts ==
    ~(pc = "raised" /\ err = "OCRError")

=============================================================================
